---- MODULE Spec2Model ----
(***************************************************************************)
(* sqlcc: sql change control.  A model of the command handlers (validate,  *)
(* init, status, reset, migrate), the migration loader, the state store    *)
(* and the transaction wrapper.                                            *)
(*                                                                         *)
(* The database is the environment.  A single statement that fails leaves  *)
(* no effect; a migration script (several statements) that fails may       *)
(* leave a part of its effects (README, "Handling failed migrations");     *)
(* MySQL cannot roll back DDL: a statement of that kind ends the open      *)
(* transaction by committing it, and the statements after it are           *)
(* committed one by one (README, "Running migrations in a transaction").   *)
(***************************************************************************)
EXTENDS Integers, Sequences, FiniteSets, TLC

\* ------------------------------------------------------------------ bounds

\* reset's version argument ranges over 0..MaxVersion, and the largest uint.
MaxVersion == 3
\* The machine word (int, uint), scaled down to WordBits bits.
WordBits == 8
\* An invocation's command line holds at most this many invalid options.
MaxBadArgs == 1
\* The loader's file names: stems of at most MaxStem characters, then a suffix.
MaxStem == 3

\* ------------------------------------------------------------ machine ints

\* The largest uint and the largest int.
MaxUint == 2^WordBits - 1

MaxInt == 2^(WordBits - 1) - 1

\* int(u) of a uint u: the same bits, read in two's complement.
int(u) == IF u > MaxInt THEN u - 2^WordBits ELSE u

\* ------------------------------------------------------------- file names

Digits == {"0", "1", "2", "3", "4", "5", "6", "7", "8", "9"}

DigitVal(c) ==
  CASE c = "0" -> 0 [] c = "1" -> 1 [] c = "2" -> 2 [] c = "3" -> 3
    [] c = "4" -> 4 [] c = "5" -> 5 [] c = "6" -> 6 [] c = "7" -> 7
    [] c = "8" -> 8 [] c = "9" -> 9

SqlSuffix == <<".", "s", "q", "l">>

TxtSuffix == <<".", "t", "x", "t">>

\* The byte order of the characters used in names (ASCII).
Code(c) ==
  CASE c = "." -> 46 [] c = "0" -> 48 [] c = "1" -> 49 [] c = "2" -> 50
    [] c = "3" -> 51 [] c = "4" -> 52 [] c = "5" -> 53 [] c = "6" -> 54
    [] c = "7" -> 55 [] c = "8" -> 56 [] c = "9" -> 57 [] c = "_" -> 95 [] c = "a" -> 97 [] c = "b" -> 98
    [] c = "c" -> 99 [] c = "d" -> 100 [] c = "l" -> 108 [] c = "q" -> 113
    [] c = "s" -> 115 [] c = "t" -> 116 [] c = "x" -> 120 [] c = "z" -> 122

\* Go's string comparison: byte-wise, a proper prefix first.
RECURSIVE StrLess(_, _)
StrLess(a, b) ==
  IF b = <<>> THEN FALSE
  ELSE IF a = <<>> THEN TRUE
  ELSE IF Head(a) = Head(b) THEN StrLess(Tail(a), Tail(b))
  ELSE Code(Head(a)) < Code(Head(b))

\* strings.HasSuffix
HasSuffix(name, suffix) ==
  /\ Len(name) >= Len(suffix)
  /\ SubSeq(name, Len(name) - Len(suffix) + 1, Len(name)) = suffix

\* The last position of the run of digits that starts at p.
RECURSIVE DigitRunEnd(_, _)
DigitRunEnd(name, p) ==
  IF p + 1 <= Len(name) /\ name[p + 1] \in Digits
    THEN DigitRunEnd(name, p + 1)
    ELSE p

\* The pattern (\d+)_.*\.sql matches name from position p on.  The pattern
\* is not anchored: p is any position of the name.
MatchesAt(name, p) ==
  /\ name[p] \in Digits
  /\ LET q == DigitRunEnd(name, p)
     IN /\ q + 1 <= Len(name)
        /\ name[q + 1] = "_"
        /\ \E r \in (q + 2)..(Len(name) - 3) : SubSeq(name, r, r + 3) = SqlSuffix

\* strconv.Atoi of a run of digits: the value and a nil error, or, when the
\* value is beyond the int, the largest int and a range error.
RECURSIVE Atoi(_)
Atoi(ds) ==
  IF ds = <<>> THEN [n |-> 0, err |-> "syntax"]
  ELSE IF Len(ds) = 1 THEN [n |-> DigitVal(ds[1]), err |-> "nil"]
  ELSE LET r == Atoi(SubSeq(ds, 1, Len(ds) - 1))
           v == 10 * r.n + DigitVal(ds[Len(ds)])
       IN IF r.err # "nil" \/ v > MaxInt
            THEN [n |-> MaxInt, err |-> "range"]
            ELSE [n |-> v, err |-> "nil"]

\* parseMigrationName: FindStringSubmatch takes the leftmost match of the
\* pattern, and its first group is the whole run of digits found there.
\* "panic" is no error returned: it is panic(err) on Atoi's error.
parseMigrationName(name) ==
  LET ps == {p \in 1..Len(name) : MatchesAt(name, p)}
  IN IF ps = {}
       THEN [err |-> "invalidName", version |-> 0]
       ELSE LET p == CHOOSE x \in ps : \A y \in ps : x <= y
                r == Atoi(SubSeq(name, p, DigitRunEnd(name, p)))
            IN IF r.err # "nil"
                 THEN [err |-> "panic", version |-> 0]
               ELSE IF r.n = 0
                 THEN [err |-> "zeroVersion", version |-> 0]
                 ELSE [err |-> "nil", version |-> r.n]

\* ------------------------------------------------------------- the loader

\* os.ReadDir: the entries of the directory, sorted by file name.
RECURSIVE ReadDir(_)
ReadDir(entries) ==
  IF entries = {} THEN <<>>
  ELSE LET e == CHOOSE x \in entries :
                  \A y \in entries : y = x \/ StrLess(x.name, y.name)
       IN <<e>> \o ReadDir(entries \ {e})

\* The values of migrationsByVersion in the order of their names.
RECURSIVE SortByName(_)
SortByName(ms) ==
  IF ms = {} THEN <<>>
  ELSE LET m == CHOOSE x \in ms : \A y \in ms : y = x \/ StrLess(x.name, y.name)
       IN <<m>> \o SortByName(ms \ {m})

\* sort.Slice by version, of the values of migrationsByVersion.
RECURSIVE SortByVersion(_)
SortByVersion(ms) ==
  IF ms = {} THEN <<>>
  ELSE LET m == CHOOSE x \in ms : \A y \in ms : x.version <= y.version
       IN <<m>> \o SortByVersion(ms \ {m})

\* "_, ok := migrationsByVersion[version]": the map holds the key v.
hasVersionNever(byVersion, v) == FALSE

hasVersion(byVersion, v) == \E m \in byVersion : m.version = v

\* The loop of parseMigrations over the entries left, byVersion being the
\* migrations kept so far.
RECURSIVE parseEntries(_, _)
parseEntries(es, byVersion) ==
  IF es = <<>> THEN [err |-> "nil", migrations |-> SortByVersion(byVersion)]
  ELSE LET e == Head(es)
       IN IF e.isDir \/ ~HasSuffix(e.name, SqlSuffix)
            THEN parseEntries(Tail(es), byVersion)
            ELSE LET r == parseMigrationName(e.name)
                 IN IF r.err # "nil"
                      THEN [err |-> r.err, migrations |-> <<>>]
                    ELSE IF hasVersion(byVersion, r.version)
                      THEN [err |-> "duplicateVersion", migrations |-> <<>>]
                    ELSE IF ~e.readable
                      THEN [err |-> "readFile", migrations |-> <<>>]
                    ELSE parseEntries(Tail(es), byVersion \cup
                           {[version |-> r.version, name |-> e.name]})

\* parseMigrations: a directory is readable or not; a readable one holds a
\* set of entries.
parseMigrations(d) ==
  IF ~d.readable
    THEN [err |-> "readDir", migrations |-> <<>>]
    ELSE parseEntries(ReadDir(d.entries), {})

\* ----------------------------------------------------------- command line

Drivers == {"", "mysql", "postgres", "sqlite3", "oracle"}

RunInTxValues == {"", "auto", "always", "never", "sometimes"}

Commands == {"validate", "init", "status", "reset", "migrate"}

\* rootArgs, with the command and the command's own flags.
ArgsSet ==
  [cmd : Commands, Driver : Drivers, DSN : {"", "dsn"},
   StateTable : {"", "sqlcc"}, Migrations : {"", "migrations"},
   RunInTx : RunInTxValues, Force : BOOLEAN,
   Version : (0..MaxVersion) \cup {MaxUint}, Dirty : BOOLEAN]

NoArgs ==
  [cmd |-> "none", Driver |-> "", DSN |-> "", StateTable |-> "",
   Migrations |-> "", RunInTx |-> "", Force |-> FALSE,
   Version |-> 0, Dirty |-> FALSE]

\* rootArgs.validate without its last switch.
validateNoRunInTxCheck(a, noDB) ==
  IF a.Migrations = "" THEN "migrationsRequired"
  ELSE IF noDB THEN "nil"
  ELSE IF a.Driver = "" THEN "driverRequired"
  ELSE IF a.Driver \notin {"mysql", "postgres", "sqlite3"} THEN "invalidDriver"
  ELSE IF a.DSN = "" THEN "dsnRequired"
  ELSE IF a.StateTable = "" THEN "stateTableRequired"
  ELSE "nil"

\* rootArgs.validate
validate(a, noDB) ==
  IF a.Migrations = "" THEN "migrationsRequired"
  ELSE IF noDB THEN "nil"
  ELSE IF a.Driver = "" THEN "driverRequired"
  ELSE IF a.Driver \notin {"mysql", "postgres", "sqlite3"} THEN "invalidDriver"
  ELSE IF a.DSN = "" THEN "dsnRequired"
  ELSE IF a.StateTable = "" THEN "stateTableRequired"
  ELSE IF a.RunInTx \notin {"", "auto", "always", "never"} THEN "invalidRunInTx"
  ELSE "nil"

\* runInTx with "auto" as the only name of the automatic mode.
runInTxAutoOnly(a) ==
  CASE a.RunInTx = "always" -> "true"
    [] a.RunInTx = "never" -> "false"
    [] a.RunInTx = "auto" ->
         (CASE a.Driver = "mysql" -> "false"
            [] a.Driver \in {"postgres", "sqlite3"} -> "true"
            [] OTHER -> "panic")
    [] OTHER -> "panic"

runInTxMysqlAuto(a) ==
  CASE a.RunInTx = "always" -> "true"
    [] a.RunInTx = "never" -> "false"
    [] a.RunInTx \in {"", "auto"} ->
         (CASE a.Driver \in {"mysql", "postgres", "sqlite3"} -> "true"
            [] OTHER -> "panic")
    [] OTHER -> "panic"

\* rootArgs.runInTx: "true", "false", or "panic" at an unreachable branch.
runInTx(a) ==
  CASE a.RunInTx = "always" -> "true"
    [] a.RunInTx = "never" -> "false"
    [] a.RunInTx \in {"", "auto"} ->
         (CASE a.Driver = "mysql" -> "false"
            [] a.Driver \in {"postgres", "sqlite3"} -> "true"
            [] OTHER -> "panic")
    [] OTHER -> "panic"

\* The options of a command line that validate(false) rejects.
BadArgs(a) ==
  {f \in {"Driver", "DSN", "StateTable", "Migrations", "RunInTx"} :
     \/ f = "Driver" /\ a.Driver \notin {"mysql", "postgres", "sqlite3"}
     \/ f = "DSN" /\ a.DSN = ""
     \/ f = "StateTable" /\ a.StateTable = ""
     \/ f = "Migrations" /\ a.Migrations = ""
     \/ f = "RunInTx" /\ a.RunInTx \notin {"", "auto", "always", "never"}}

\* The command lines an invocation is given: a command has the flags of its
\* own argument struct only (Force: migrate; Version, Dirty: reset), and
\* validate is also run with the migrations directory alone.
ValidInvocation(a) ==
  /\ \/ Cardinality(BadArgs(a)) <= MaxBadArgs
     \/ /\ a.cmd = "validate"
        /\ a.Driver = "" /\ a.DSN = "" /\ a.StateTable = "" /\ a.RunInTx = ""
  /\ a.cmd # "migrate" => ~a.Force
  /\ a.cmd # "reset" => a.Version = 0 /\ ~a.Dirty

Invocations == {a : a \in {x \in ArgsSet : ValidInvocation(x)}}

\* The invocations of the commands that read the migrations directory.
LoadingInvocations ==
  {a : a \in {x \in Invocations : x.cmd \in {"validate", "migrate"}}}

\* The invocations of the commands that do not.
PlainInvocations == {a : a \in Invocations \ LoadingInvocations}

\* ------------------------------------------------------------ directories

Str1a == <<"1", "_", "a">> \o SqlSuffix
Str02b == <<"0", "2", "_", "b">> \o SqlSuffix
Str3c == <<"3", "_", "c">> \o SqlSuffix
Str2d == <<"2", "_", "d">> \o SqlSuffix
Str0z == <<"0", "_", "z">> \o SqlSuffix
Strx == <<"x">> \o SqlSuffix
StrNotes == <<"a">> \o TxtSuffix

File(name) == [name |-> name, isDir |-> FALSE, readable |-> TRUE]

\* Directories of well-formed migrations, with gaps between the versions.
GoodDirs ==
  {[readable |-> TRUE, entries |-> S] :
     S \in SUBSET {File(Str1a), File(Str02b), File(Str3c)}}

\* A directory with entries the loader skips, and the malformed directories.
OddDirs ==
  {[readable |-> TRUE,
    entries |-> {File(Str1a), File(StrNotes),
                 [name |-> Str3c, isDir |-> TRUE, readable |-> TRUE]}],
   [readable |-> FALSE, entries |-> {}],
   [readable |-> TRUE, entries |-> {File(Str1a), File(Strx)}],
   [readable |-> TRUE, entries |-> {File(Str1a), File(Str0z)}],
   [readable |-> TRUE, entries |-> {File(Str02b), File(Str2d)}],
   [readable |-> TRUE,
    entries |-> {[name |-> Str1a, isDir |-> FALSE, readable |-> FALSE]}]}

\* The directories the commands are run on.
DirInputs == GoodDirs \cup OddDirs

\* The directory of an invocation that reads none.
NoDir == [readable |-> TRUE, entries |-> {}]

\* --------------------------------------------------------------- database

\* The state table (absent, or its rows), and a history of the rest of the
\* database, which sqlcc never reads: the versions of the scripts of this
\* invocation whose changes, whole or partial, the database holds.
EmptyDb == [exists |-> FALSE, rows |-> <<>>, effects |-> {}]

\* type state: the zero value.
ZeroState == [version |-> 0, dirty |-> FALSE]

\* getState: select ... limit 1, scanned into a state.
getState(view) ==
  IF view.exists /\ view.rows # <<>>
    THEN [err |-> "nil", s |-> view.rows[1]]
    ELSE [err |-> "readState", s |-> ZeroState]

\* setState: update ... set version, dirty, with no where clause.
setStateKeepDirty(view, s) ==
  [view EXCEPT !.rows = [k \in DOMAIN view.rows |->
                           [version |-> s.version, dirty |-> view.rows[k].dirty]]]

setState(view, s) ==
  [view EXCEPT !.rows = [k \in DOMAIN view.rows |-> s]]

\* initState, first statement: create table.
createTable(view) == [view EXCEPT !.exists = TRUE, !.rows = <<>>]

\* An insert that adds no row.
insertNothing(view) == view

\* initState, second statement: insert into ... values (0, false).
insertRow(view) == [view EXCEPT !.rows = Append(view.rows, ZeroState)]

\* fmt's %d of an int.
RECURSIVE Itoa(_)
Itoa(n) ==
  LET d == <<"0", "1", "2", "3", "4", "5", "6", "7", "8", "9">>
  IN IF n < 0 THEN <<"-">> \o Itoa(0 - n)
     ELSE IF n < 10 THEN <<d[n + 1]>>
     ELSE Itoa(n \div 10) \o <<d[(n % 10) + 1]>>

\* status: the line printed, "%d (dirty)\n" or "%d\n".
StatusLine(s) ==
  IF s.dirty
    THEN Itoa(s.version) \o <<" ", "(", "d", "i", "r", "t", "y", ")">>
    ELSE Itoa(s.version)

\* An event of the invocation: a call on the file system or the database,
\* its outcome, and the state (or the script's version) it carries.
Ev(op, ok, version, dirty) ==
  [op |-> op, ok |-> ok, version |-> version, dirty |-> dirty,
   implicit |-> FALSE]

\* The event of a statement with which MySQL committed the transaction.
Implicit(e) == [e EXCEPT !.implicit = TRUE]

\* What is kept of the invocation before: a forced migrate that returned
\* nil and its migrations, a reset that returned nil and its arguments, an
\* init that returned nil; this is the value when it was none of them.
NoLast ==
  [forcedOk |-> FALSE, migrations |-> <<>>, resetOk |-> FALSE,
   initOk |-> FALSE, version |-> 0, dirty |-> FALSE]

\* ------------------------------------------------------------------ state

VARIABLES
  db,          \* the committed database
  tx,          \* the open transaction's view of the database
  txLive,      \* whether the database holds an open transaction
  pc,          \* where the invocation stands
  args,        \* the command line of the invocation
  dir,         \* the directory the invocation read
  migrations,  \* migrate: the loaded migrations
  inTx,        \* withTx: its inTx parameter
  state,       \* migrate, status: the local state
  i,           \* migrate: the loop index
  err,         \* the error f, withTx or the handler returns ("nil": none)
  out,         \* the lines printed on stdout
  log,         \* history: the calls of this invocation, in order
  pre,         \* history: the committed database when the invocation began
  last         \* history: the invocation before this one

vars ==
  <<db, tx, txLive, pc, args, dir, migrations, inTx, state, i, err, out,
    log, pre, last>>

\* What the queryer q reads and writes: the transaction or the database.
Conn == IF txLive THEN tx ELSE db

\* A write through q.
WriteConn(new) ==
  IF txLive
    THEN tx' = new /\ UNCHANGED <<db, txLive>>
    ELSE db' = new /\ UNCHANGED <<tx, txLive>>

\* A statement MySQL cannot roll back: the open transaction is committed
\* with it, and the connection goes on without a transaction.
WriteImplicitCommit(new) ==
  /\ db' = new
  /\ tx' = EmptyDb
  /\ txLive' = FALSE

Init ==
  /\ db = EmptyDb
  /\ tx = EmptyDb
  /\ txLive = FALSE
  /\ pc = "idle"
  /\ args = NoArgs
  /\ dir = NoDir
  /\ migrations = <<>>
  /\ inTx = FALSE
  /\ state = ZeroState
  /\ i = 0
  /\ err = "nil"
  /\ out = <<>>
  /\ log = <<>>
  /\ pre = EmptyDb
  /\ last = NoLast

\* ---------------------------------------------------------------- actions

\* The handler up to its call of rootArgs.withTx: validate, and for migrate
\* and validate, parseMigrations.
StartResultLoadErrorDropped(a, d) ==
  LET v == validate(a, a.cmd = "validate")
      r == parseMigrations(d)
  IN IF v # "nil"
       THEN [err |-> v, read |-> FALSE, migrations |-> <<>>, pc |-> "done"]
     ELSE IF a.cmd \notin {"validate", "migrate"}
       THEN [err |-> "nil", read |-> FALSE, migrations |-> <<>>, pc |-> "withTx"]
     ELSE IF a.cmd = "validate"
       THEN [err |-> r.err, read |-> TRUE, migrations |-> <<>>, pc |-> "done"]
     ELSE [err |-> "nil", read |-> TRUE, migrations |-> r.migrations,
           pc |-> "withTx"]

\* A panic of parseMigrationName ends the program where it stands: nothing
\* is returned, and pc and err both say "panic".
StartResult(a, d) ==
  LET v == validate(a, a.cmd = "validate")
      loads == a.cmd \in {"validate", "migrate"}
      r == parseMigrations(d)
  IN IF v # "nil"
       THEN [err |-> v, read |-> FALSE, migrations |-> <<>>, pc |-> "done"]
     ELSE IF ~loads
       THEN [err |-> "nil", read |-> FALSE, migrations |-> <<>>, pc |-> "withTx"]
     ELSE IF r.err = "panic"
       THEN [err |-> "panic", read |-> TRUE, migrations |-> <<>>, pc |-> "panic"]
     ELSE IF r.err # "nil" \/ a.cmd = "validate"
       THEN [err |-> r.err, read |-> TRUE, migrations |-> <<>>, pc |-> "done"]
     ELSE [err |-> "nil", read |-> TRUE, migrations |-> r.migrations,
           pc |-> "withTx"]

\* An invocation of sqlcc begins: command line a, migrations directory d.
Start(a, d) ==
  /\ pc = "idle"
  /\ LET r == StartResult(a, d)
     IN /\ args' = a
        /\ dir' = IF r.read THEN d ELSE NoDir
        /\ migrations' = r.migrations
        /\ err' = r.err
        /\ pc' = r.pc
        /\ log' = IF r.read THEN <<Ev("readDir", r.err # "readDir", 0, FALSE)>>
                            ELSE <<>>
  /\ pre' = db
  /\ UNCHANGED <<db, tx, txLive, inTx, state, i, out, last>>

\* The commands that read the migrations directory, and those that do not.
StartLoading ==
  /\ pc = "idle"
  /\ \E a \in LoadingInvocations, d \in DirInputs : Start(a, d)

StartPlain ==
  /\ pc = "idle"
  /\ \E a \in PlainInvocations : Start(a, NoDir)

\* The process exits: nothing of it is left but the database.
Exit ==
  /\ pc = "done"
  /\ pc' = "idle"
  /\ last' = IF err # "nil" THEN NoLast
              ELSE IF args.cmd = "migrate" /\ args.Force
                THEN [NoLast EXCEPT !.forcedOk = TRUE, !.migrations = migrations]
              ELSE IF args.cmd = "reset"
                THEN [NoLast EXCEPT !.resetOk = TRUE, !.version = args.Version,
                                    !.dirty = args.Dirty]
              ELSE IF args.cmd = "init"
                THEN [NoLast EXCEPT !.initOk = TRUE]
              ELSE NoLast
  /\ args' = NoArgs
  /\ dir' = NoDir
  /\ migrations' = <<>>
  /\ inTx' = FALSE
  /\ state' = ZeroState
  /\ i' = 0
  /\ err' = "nil"
  /\ out' = <<>>
  /\ log' = <<>>
  /\ pre' = EmptyDb
  /\ db' = [db EXCEPT !.effects = {}]
  /\ UNCHANGED <<tx, txLive>>

\* The first statement of the command's f.
FEntry(cmd) ==
  CASE cmd = "init" -> "initCreate"
    [] cmd = "reset" -> "reset"
    [] OTHER -> "getState"

\* rootArgs.withTx and withTx up to the call of f: sql.Open, runInTx,
\* BeginTx.
WithTxEnter ==
  /\ pc = "withTx"
  /\ \/ /\ err' = "openDb"
        /\ pc' = "done"
        /\ log' = Append(log, Ev("open", FALSE, 0, FALSE))
        /\ UNCHANGED <<inTx, tx, txLive>>
     \/ /\ runInTx(args) # "true"
        /\ inTx' = FALSE
        /\ pc' = IF runInTx(args) = "panic" THEN "panic" ELSE FEntry(args.cmd)
        /\ log' = Append(log, Ev("open", TRUE, 0, FALSE))
        /\ UNCHANGED <<err, tx, txLive>>
     \/ /\ runInTx(args) = "true"
        /\ inTx' = TRUE
        /\ tx' = db
        /\ txLive' = TRUE
        /\ pc' = FEntry(args.cmd)
        /\ log' = log \o <<Ev("open", TRUE, 0, FALSE), Ev("begin", TRUE, 0, FALSE)>>
        /\ UNCHANGED err
     \/ /\ runInTx(args) = "true"
        /\ inTx' = TRUE
        /\ err' = "beginTx"
        /\ pc' = "done"
        /\ log' = log \o <<Ev("open", TRUE, 0, FALSE), Ev("begin", FALSE, 0, FALSE)>>
        /\ UNCHANGED <<tx, txLive>>
  /\ UNCHANGED <<db, args, dir, migrations, state, i, out, pre, last>>

\* migrate: "advance to first migration after current state", from index k.
RECURSIVE advanceBelow(_, _, _)
advanceBelow(ms, v, k) ==
  IF k < Len(ms) /\ ms[k + 1].version < v
    THEN advanceBelow(ms, v, k + 1)
    ELSE k

advanceNoSkip(ms, v, k) == k

RECURSIVE advance(_, _, _)
advance(ms, v, k) ==
  IF k < Len(ms) /\ ms[k + 1].version <= v
    THEN advance(ms, v, k + 1)
    ELSE k

\* migrate: "if state.dirty", the guard of the dirty-state error.
dirtyGuard(s) == s.dirty

\* migrate's f: getState, the dirty guard, the advance loop.
MigrateRead ==
  /\ pc = "getState"
  /\ args.cmd = "migrate"
  /\ \E ioOk \in BOOLEAN :
       LET r == IF ioOk THEN getState(Conn)
                        ELSE [err |-> "readState", s |-> ZeroState]
       IN /\ log' = Append(log, Ev("getState", r.err = "nil", r.s.version, r.s.dirty))
          /\ \/ /\ r.err # "nil"
                /\ err' = r.err
                /\ pc' = "ret"
                /\ UNCHANGED <<state, i>>
             \/ /\ r.err = "nil"
                /\ dirtyGuard(r.s)
                /\ state' = r.s
                /\ err' = "dirty"
                /\ pc' = "ret"
                /\ UNCHANGED i
             \/ /\ r.err = "nil"
                /\ ~dirtyGuard(r.s)
                /\ state' = r.s
                /\ i' = advance(migrations, r.s.version, 0)
                /\ pc' = "loop"
                /\ UNCHANGED err
  /\ UNCHANGED <<db, tx, txLive, args, dir, migrations, inTx, out, pre, last>>

\* The state migrate writes before it runs a script.
dirtyMarkSkipped(s) == s

dirtyMark(s) == [s EXCEPT !.dirty = TRUE]

\* The state migrate writes after migration m's script.
cleanMarkOrdinal(s, m, k) == [version |-> k + 1, dirty |-> FALSE]

cleanMark(s, m, k) == [version |-> m.version, dirty |-> FALSE]

\* migrate: fmt.Println(migrations[i].name) on the lines o printed so far.
PrintlnDropped(o, m) == o

Println(o, m) == Append(o, m.name)

\* Whether migrate runs the scripts.
forcedAlways(a) == TRUE

forced(a) == a.Force

\* migrate: the head of the loop "run all migrations thereafter": the end of
\* the list, a dry-run iteration, or the write of the dirty state.
MigrateLoop ==
  /\ pc = "loop"
  /\ \/ /\ i >= Len(migrations)
        /\ err' = "nil"
        /\ pc' = "ret"
        /\ UNCHANGED <<db, tx, txLive, state, i, out, log>>
     \/ /\ i < Len(migrations)
        /\ ~forced(args)
        /\ out' = Println(out, migrations[i + 1])
        /\ i' = i + 1
        /\ UNCHANGED <<db, tx, txLive, state, err, pc, log>>
     \/ /\ i < Len(migrations)
        /\ forced(args)
        /\ out' = Println(out, migrations[i + 1])
        /\ state' = dirtyMark(state)
        /\ \/ /\ Conn.exists
              /\ WriteConn(setState(Conn, state'))
              /\ log' = Append(log, Ev("setState", TRUE, state'.version, state'.dirty))
              /\ pc' = "exec"
              /\ UNCHANGED err
           \/ /\ log' = Append(log, Ev("setState", FALSE, state'.version, state'.dirty))
              /\ err' = "writeState"
              /\ pc' = "ret"
              /\ UNCHANGED <<db, tx, txLive>>
        /\ UNCHANGED i
  /\ UNCHANGED <<args, dir, migrations, inTx, pre, last>>

\* The database after a script that ran to its end.
applied(view, v) == [view EXCEPT !.effects = @ \cup {v}]

\* migrate: q.ExecContext of the script of migrations[i].
MigrateExec ==
  /\ pc = "exec"
  /\ LET v == migrations[i + 1].version
     IN \/ /\ WriteConn(applied(Conn, v))
           /\ log' = Append(log, Ev("exec", TRUE, v, FALSE))
           /\ pc' = "clean"
           /\ UNCHANGED err
        \/ /\ \E part \in BOOLEAN :
                WriteConn(IF part THEN applied(Conn, v) ELSE Conn)
           /\ log' = Append(log, Ev("exec", FALSE, v, FALSE))
           /\ err' = "exec"
           /\ pc' = "ret"
        \/ /\ args.Driver = "mysql"
           /\ txLive
           /\ WriteImplicitCommit(applied(Conn, v))
           /\ log' = Append(log, Implicit(Ev("exec", TRUE, v, FALSE)))
           /\ pc' = "clean"
           /\ UNCHANGED err
        \/ /\ args.Driver = "mysql"
           /\ txLive
           /\ \E part \in BOOLEAN :
                WriteImplicitCommit(IF part THEN applied(Conn, v) ELSE Conn)
           /\ log' = Append(log, Implicit(Ev("exec", FALSE, v, FALSE)))
           /\ err' = "exec"
           /\ pc' = "ret"
  /\ UNCHANGED <<args, dir, migrations, inTx, state, i, out, pre, last>>

\* The write of the clean state with its error dropped: the loop goes on.
MigrateCleanErrorDropped ==
  /\ pc = "clean"
  /\ state' = cleanMark(state, migrations[i + 1], i)
  /\ \/ /\ Conn.exists
        /\ WriteConn(setState(Conn, state'))
        /\ log' = Append(log, Ev("setState", TRUE, state'.version, state'.dirty))
     \/ /\ log' = Append(log, Ev("setState", FALSE, state'.version, state'.dirty))
        /\ UNCHANGED <<db, tx, txLive>>
  /\ i' = i + 1
  /\ pc' = "loop"
  /\ UNCHANGED <<args, dir, migrations, inTx, out, pre, last, err>>

\* migrate: the write of the clean state after the script, and i++.
MigrateClean ==
  /\ pc = "clean"
  /\ state' = cleanMark(state, migrations[i + 1], i)
  /\ \/ /\ Conn.exists
        /\ WriteConn(setState(Conn, state'))
        /\ log' = Append(log, Ev("setState", TRUE, state'.version, state'.dirty))
        /\ i' = i + 1
        /\ pc' = "loop"
        /\ UNCHANGED err
     \/ /\ log' = Append(log, Ev("setState", FALSE, state'.version, state'.dirty))
        /\ err' = "writeState"
        /\ pc' = "ret"
        /\ UNCHANGED <<db, tx, txLive, i>>
  /\ UNCHANGED <<args, dir, migrations, inTx, out, pre, last>>

\* status's f: getState into s.
StatusRead ==
  /\ pc = "getState"
  /\ args.cmd = "status"
  /\ \E ioOk \in BOOLEAN :
       LET r == IF ioOk THEN getState(Conn)
                        ELSE [err |-> "readState", s |-> ZeroState]
       IN /\ log' = Append(log, Ev("getState", r.err = "nil", r.s.version, r.s.dirty))
          /\ state' = r.s
          /\ err' = r.err
  /\ pc' = "ret"
  /\ UNCHANGED <<db, tx, txLive, args, dir, migrations, inTx, i, out, pre, last>>

\* reset's f: setState of the version and the dirty flag given.
ResetWrite ==
  /\ pc = "reset"
  /\ LET s == [version |-> int(args.Version), dirty |-> args.Dirty]
     IN \/ /\ Conn.exists
           /\ WriteConn(setState(Conn, s))
           /\ log' = Append(log, Ev("setState", TRUE, s.version, s.dirty))
           /\ UNCHANGED err
        \/ /\ log' = Append(log, Ev("setState", FALSE, s.version, s.dirty))
           /\ err' = "writeState"
           /\ UNCHANGED <<db, tx, txLive>>
  /\ pc' = "ret"
  /\ UNCHANGED <<args, dir, migrations, inTx, state, i, out, pre, last>>

\* initState: create table.  It fails on a table that exists.  On MySQL
\* the statement is one that cannot be rolled back.
InitCreate ==
  /\ pc = "initCreate"
  /\ \/ /\ ~Conn.exists
        /\ ~(args.Driver = "mysql" /\ txLive)
        /\ WriteConn(createTable(Conn))
        /\ log' = Append(log, Ev("createTable", TRUE, 0, FALSE))
        /\ pc' = "initInsert"
        /\ UNCHANGED err
     \/ /\ ~Conn.exists
        /\ args.Driver = "mysql" /\ txLive
        /\ WriteImplicitCommit(createTable(Conn))
        /\ log' = Append(log, Implicit(Ev("createTable", TRUE, 0, FALSE)))
        /\ pc' = "initInsert"
        /\ UNCHANGED err
     \/ /\ log' = Append(log, Ev("createTable", FALSE, 0, FALSE))
        /\ err' = "createTable"
        /\ pc' = "ret"
        /\ UNCHANGED <<db, tx, txLive>>
  /\ UNCHANGED <<args, dir, migrations, inTx, state, i, out, pre, last>>

\* initState: insert the row (0, false).
InitInsert ==
  /\ pc = "initInsert"
  /\ \/ /\ WriteConn(insertRow(Conn))
        /\ log' = Append(log, Ev("insert", TRUE, 0, FALSE))
        /\ UNCHANGED err
     \/ /\ log' = Append(log, Ev("insert", FALSE, 0, FALSE))
        /\ err' = "createTable"
        /\ UNCHANGED <<db, tx, txLive>>
  /\ pc' = "ret"
  /\ UNCHANGED <<args, dir, migrations, inTx, state, i, out, pre, last>>

\* What the handler prints once withTx has returned e.
Printed(e) ==
  IF args.cmd = "status" /\ e = "nil" THEN Append(out, StatusLine(state)) ELSE out

\* withTx: whether it rolls back, f having returned e.
commitAlways(e) == FALSE

rollsBack(e) == e # "nil"

\* tx.Rollback: the committed database after it, work being the
\* transaction's view.
rollbackKeeps(committed, work) == work

afterRollback(committed, work) == committed

\* tx.Commit that succeeds: the committed database after it.
afterCommit(committed, work) == work

\* withTx after f has returned err: without a transaction it returns err;
\* with one it rolls back on an error and commits otherwise.  On a
\* connection whose transaction the database has ended already, neither
\* changes the database.
WithTxReturn ==
  /\ pc = "ret"
  /\ \/ /\ ~inTx
        /\ out' = Printed(err)
        /\ UNCHANGED <<db, tx, txLive, err, log>>
     \/ /\ inTx
        /\ rollsBack(err)
        /\ db' = IF txLive THEN afterRollback(db, tx) ELSE db
        /\ tx' = EmptyDb
        /\ txLive' = FALSE
        /\ \/ /\ log' = Append(log, Ev("rollback", TRUE, 0, FALSE))
              /\ UNCHANGED err
           \/ /\ log' = Append(log, Ev("rollback", FALSE, 0, FALSE))
              /\ err' = "rollbackTx"
        /\ UNCHANGED out
     \/ /\ inTx
        /\ ~rollsBack(err)
        /\ tx' = EmptyDb
        /\ txLive' = FALSE
        /\ \/ /\ db' = IF txLive THEN afterCommit(db, tx) ELSE db
              /\ log' = Append(log, Ev("commit", TRUE, 0, FALSE))
              /\ out' = Printed(err)
              /\ UNCHANGED err
           \/ /\ log' = Append(log, Ev("commit", FALSE, 0, FALSE))
              /\ err' = "commitTx"
              /\ UNCHANGED <<db, out>>
  /\ pc' = "done"
  /\ UNCHANGED <<args, dir, migrations, inTx, state, i, pre, last>>

Next ==
  \/ StartLoading
  \/ StartPlain
  \/ WithTxEnter
  \/ MigrateRead
  \/ MigrateLoop
  \/ MigrateExec
  \/ MigrateClean
  \/ StatusRead
  \/ ResetWrite
  \/ InitCreate
  \/ InitInsert
  \/ WithTxReturn
  \/ Exit

Spec == Init /\ [][Next]_vars

\* ------------------------------------------- the transaction policy alone

\* Every driver and every --run-in-transaction value, validated or not.
PolicyArgs ==
  {[NoArgs EXCEPT !.cmd = c, !.Driver = d, !.RunInTx = t, !.DSN = "dsn",
                  !.StateTable = "sqlcc", !.Migrations = "migrations"] :
     c \in {"init", "status", "reset", "migrate"}, d \in Drivers,
     t \in RunInTxValues}

InitPolicy ==
  /\ db = EmptyDb
  /\ tx = EmptyDb
  /\ txLive = FALSE
  /\ pc = "withTx"
  /\ args \in PolicyArgs
  /\ dir = NoDir
  /\ migrations = <<>>
  /\ inTx = FALSE
  /\ state = ZeroState
  /\ i = 0
  /\ err = "nil"
  /\ out = <<>>
  /\ log = <<>>
  /\ pre = EmptyDb
  /\ last = NoLast

SpecPolicy == InitPolicy /\ [][WithTxEnter]_vars

\* ------------------------------------------------------- the loader alone

\* File names: a stem of at most MaxStem characters, then ".sql".
RECURSIVE Stems(_)
Stems(n) ==
  IF n = 0 THEN {<<>>}
  ELSE LET shorter == Stems(n - 1)
       IN shorter \cup {Append(t, c) : t \in shorter, c \in {"0", "1", "_", "a"}}

\* The entries of the directories: files of every stem, a file that is no
\* .sql file, a directory, unreadable files, and the files whose digits are
\* the largest int and the number after it.
WideFiles ==
  {File(t \o SqlSuffix) : t \in Stems(MaxStem) \ {<<>>}}
    \cup {File(<<"1", "_", "a">> \o TxtSuffix),
          [name |-> <<"a">> \o SqlSuffix, isDir |-> TRUE, readable |-> TRUE],
          [name |-> <<"2", "_">> \o SqlSuffix, isDir |-> FALSE, readable |-> FALSE],
          [name |-> <<"0", "1", "_">> \o SqlSuffix, isDir |-> FALSE,
           readable |-> FALSE],
          File(Itoa(MaxInt) \o <<"_">> \o SqlSuffix),
          File(Itoa(MaxInt + 1) \o <<"_">> \o SqlSuffix)}

\* Directories of one or two entries with different names.
WideDirs ==
  {d \in {[readable |-> TRUE, entries |-> {f, g}] : f \in WideFiles, g \in WideFiles} :
     \A f \in d.entries, g \in d.entries : f = g \/ f.name # g.name}

\* validate and a dry-run migrate, the command line being valid.
WideInvocations ==
  {[NoArgs EXCEPT !.cmd = c, !.Driver = "sqlite3", !.DSN = "dsn",
                  !.StateTable = "sqlcc", !.Migrations = "migrations"] :
     c \in {"validate", "migrate"}}

StartWide ==
  /\ pc = "idle"
  /\ \E a \in WideInvocations, d \in WideDirs : Start(a, d)

SpecLoad == Init /\ [][StartWide]_vars

\* ------------------------------------------------- readers of the history

IsExec(e) == e.op = "exec"

IsWrite(e) == e.op = "setState"

IsRead(e) == e.op = "getState"

\* The script executions, the state writes and the state reads of the
\* invocation, in order.
Execs == SelectSeq(log, IsExec)

Writes == SelectSeq(log, IsWrite)

Reads == SelectSeq(log, IsRead)

VersionsOf(s) == [k \in DOMAIN s |-> s[k].version]

\* The migrations of ms with a version above v, in the order of ms.
RECURSIVE After(_, _)
After(ms, v) ==
  IF ms = <<>> THEN <<>>
  ELSE IF Head(ms).version > v THEN <<Head(ms)>> \o After(Tail(ms), v)
  ELSE After(Tail(ms), v)

\* The invocation is a migrate, with --force or without.
Forced == args.cmd = "migrate" /\ args.Force

DryRun == args.cmd = "migrate" /\ ~args.Force

\* migrate has read the state, and read it clean or dirty.
ReadClean == Reads # <<>> /\ Reads[1].ok /\ ~Reads[1].dirty

ReadDirty == Reads # <<>> /\ Reads[1].ok /\ Reads[1].dirty

\* The version migrate read at its start.
ReadVersion == Reads[1].version

\* The last script executed failed.
ScriptFailed == Execs # <<>> /\ ~Execs[Len(Execs)].ok

\* No statement of the invocation made the database commit by itself.
NoImplicitCommit == \A k \in DOMAIN log : ~log[k].implicit

\* ---------------------------------------------------------------- claims

\* C1: in non-transactional mode with --force, from a clean state, when the
\* script of the N-th pending migration fails, migrate has executed the
\* first N pending scripts and no other, returns an error, and the state
\* table holds (version of the (N-1)-th pending migration, dirty), the
\* version being the one before the call when N = 1.
C1_NonTxFailureLeavesDirty ==
  (pc = "done" /\ Forced /\ ~inTx /\ ReadClean /\ ScriptFailed) =>
    LET n == Len(Execs)
        pend == After(migrations, pre.rows[1].version)
    IN /\ n <= Len(pend)
       /\ VersionsOf(Execs) = VersionsOf(SubSeq(pend, 1, n))
       /\ \A k \in 1..(n - 1) : Execs[k].ok
       /\ db.exists
       /\ db.rows = <<[version |-> IF n = 1 THEN pre.rows[1].version
                                            ELSE pend[n - 1].version,
                       dirty |-> TRUE]>>
       /\ err = "exec"

\* C1's case: the second pending script failed, without a transaction.
C1_Witness ==
  /\ pc = "done" /\ Forced /\ ~inTx /\ ReadClean /\ ScriptFailed
  /\ Len(Execs) = 2
  /\ db.rows = <<[version |-> Execs[1].version, dirty |-> TRUE]>>

\* C2 as stated: in transactional mode with --force, when the script of the
\* N-th pending migration fails, the database after migrate is the database
\* before it: the state record, and none of the effects of the scripts.
C2_TxFailureRestores ==
  (pc = "done" /\ Forced /\ inTx /\ ScriptFailed) => db = pre

\* C2, amended: the same, when no statement of the run made the database
\* commit the transaction by itself (MySQL, a statement it cannot roll
\* back).
C2_TxFailureRestoresRollbackSafe ==
  (pc = "done" /\ Forced /\ inTx /\ ScriptFailed /\ NoImplicitCommit) =>
    db = pre

\* C2's case: in a transaction, the second pending script failed after the
\* first was marked done, and the rollback undid it all.
C2_Witness ==
  /\ pc = "done" /\ Forced /\ inTx /\ ScriptFailed /\ NoImplicitCommit
  /\ Len(Execs) = 2
  /\ Len(Writes) = 3
  /\ db = pre

\* C3: when the state migrate reads is dirty, migrate executes no script,
\* writes no state, and fails with the dirty-state error.
C3_DirtyStateRefused ==
  (args.cmd = "migrate" /\ ReadDirty) =>
    /\ Execs = <<>>
    /\ Writes = <<>>
    /\ pc \in {"ret", "done"}
    /\ pc = "done" => err = "dirty"

\* C4: migrate without --force executes no script and writes no state, and
\* the database stays what it was before the call.
C4_DryRunWritesNothing ==
  DryRun => Execs = <<>> /\ Writes = <<>> /\ db = pre

\* C4's case: a dry run in a transaction that listed two pending migrations.
C4_Witness ==
  /\ pc = "done" /\ DryRun /\ inTx /\ err = "nil"
  /\ Len(out) >= 2
  /\ db = pre

\* The state table holds the one row s.
Persisted(s) == db.exists /\ db.rows = <<s>>

\* Every call of the invocation so far succeeded.
AllCallsOk == \A k \in DOMAIN log : log[k].ok

\* A forced migrate that read a clean state has returned, no script of it
\* having failed.
ForcedRunOver ==
  /\ pc = "done" /\ Forced /\ ReadClean
  /\ \A k \in DOMAIN Execs : Execs[k].ok

\* After a forced migrate from the clean version V: the scripts executed are
\* those of the migrations above V, once each, in ascending order, and the
\* state is the version of the last of them (V if there is none), clean.
AppliedPending ==
  LET V == ReadVersion
      pend == After(migrations, V)
  IN /\ VersionsOf(Execs) = VersionsOf(pend)
     /\ \A j, k \in DOMAIN Execs : j < k => Execs[j].version < Execs[k].version
     /\ Persisted([version |-> IF pend = <<>> THEN V
                                ELSE pend[Len(pend)].version,
                   dirty |-> FALSE])

\* C5 as stated: migrate with --force on a clean state (V, clean), no script
\* failing, executes exactly the migrations above V, once each and in
\* ascending order, and leaves (version of the last one executed, clean).
C5_ForcedRunAppliesPending == ForcedRunOver => AppliedPending

\* C5, amended: the same, when no script fails, no state write fails and,
\* in transactional mode, the commit succeeds.
C5_ForcedRunAppliesPendingAllOk ==
  (ForcedRunOver /\ AllCallsOk) => AppliedPending

\* C5's case: from version 0 the run executed migrations 1 and 3 (a gap) and
\* left (3, clean), 3 being the version and not the count.
C5_Witness ==
  /\ ForcedRunOver /\ AllCallsOk
  /\ VersionsOf(Execs) = <<1, 3>>
  /\ Persisted([version |-> 3, dirty |-> FALSE])

\* The version of the last migration completed before event k of the log:
\* that of the last script that succeeded, or the version read at the start.
RECURSIVE LastCompleted(_)
LastCompleted(k) ==
  IF k <= 1 THEN 0
  ELSE IF log[k - 1].op = "exec" /\ log[k - 1].ok THEN log[k - 1].version
  ELSE IF log[k - 1].op = "getState" THEN log[k - 1].version
  ELSE LastCompleted(k - 1)

\* C6: in force mode, the call before each script execution is the write of
\* (last completed version, dirty), the call after a script that succeeded
\* is the write of (its version, clean), and while a script is to run the
\* state read through the connection or transaction of the run is
\* (last completed version, dirty).
C6_ExecutionBracketed ==
  Forced =>
    /\ \A k \in DOMAIN log :
         log[k].op = "exec" =>
           /\ k > 1
           /\ log[k - 1].op = "setState" /\ log[k - 1].ok
           /\ log[k - 1].dirty
           /\ log[k - 1].version = LastCompleted(k - 1)
           /\ (log[k].ok /\ k < Len(log)) =>
                /\ log[k + 1].op = "setState"
                /\ ~log[k + 1].dirty
                /\ log[k + 1].version = log[k].version
    /\ pc = "exec" =>
         /\ Conn.exists
         /\ Conn.rows = <<[version |-> LastCompleted(Len(log) + 1),
                           dirty |-> TRUE]>>
    /\ pc = "clean" => log[Len(log)].op = "exec" /\ log[Len(log)].ok
    /\ (log # <<>> /\ log[Len(log)].op = "exec" /\ log[Len(log)].ok) =>
         pc = "clean"

\* C6's case: in a transaction, the second script is about to run, the
\* first having succeeded.
C6_Witness ==
  /\ Forced /\ pc = "exec" /\ inTx /\ txLive
  /\ Len(Execs) = 1 /\ Execs[1].ok
  /\ Conn.rows = <<[version |-> Execs[1].version, dirty |-> TRUE]>>
  /\ db.rows = pre.rows

\* The positions of the log's events of kind op.
At(op) == {k \in DOMAIN log : log[k].op = op}

\* A failure inside the run: the state unreadable or read dirty, a state
\* write or a script that failed.
RunFailed ==
  \E k \in DOMAIN log :
    /\ log[k].op \in {"getState", "setState", "exec"}
    /\ ~log[k].ok \/ (log[k].op = "getState" /\ log[k].dirty)

\* C7: in transactional mode the transaction is begun before the state is
\* read; it is committed only after every pending migration succeeded; a
\* failure inside the run leads to a rollback and never to a commit; a
\* transaction begun ends with one commit or one rollback, never both.
C7_TransactionDiscipline ==
  (args.cmd = "migrate" /\ inTx) =>
    /\ \A k \in At("getState") \cup At("setState") \cup At("exec") :
         \E j \in At("begin") : j < k /\ log[j].ok
    /\ \A k \in At("commit") :
         /\ ~RunFailed
         /\ ReadClean
         /\ args.Force =>
              /\ VersionsOf(Execs) = VersionsOf(After(migrations, ReadVersion))
              /\ Len(Writes) = 2 * Len(Execs)
    /\ RunFailed => At("commit") = {} /\ (pc = "done" => At("rollback") # {})
    /\ Cardinality(At("commit") \cup At("rollback")) <= 1
    /\ (pc = "done" /\ \E j \in At("begin") : log[j].ok) =>
         Cardinality(At("commit") \cup At("rollback")) = 1
    /\ \A k \in At("commit") \cup At("rollback") : k = Len(log)

\* C7's case: a transaction in which the second script failed was rolled
\* back.
C7_Witness ==
  /\ args.cmd = "migrate" /\ inTx /\ pc = "done"
  /\ Len(Execs) = 2 /\ ScriptFailed
  /\ At("commit") = {}
  /\ At("rollback") = {Len(log)}

\* C8: a forced migrate that follows a successful forced migrate over the
\* same migrations executes no script, writes no state and leaves the state
\* table as it was.
C8_SecondRunIdle ==
  (Forced /\ last.forcedOk /\ migrations = last.migrations) =>
    /\ Execs = <<>>
    /\ Writes = <<>>
    /\ db = pre

\* C8's case: the second run over two migrations has returned without an
\* error, the state being that of the first run.
C8_Witness ==
  /\ Forced /\ last.forcedOk /\ migrations = last.migrations
  /\ Len(migrations) = 2
  /\ pc = "done" /\ err = "nil"
  /\ Persisted([version |-> migrations[2].version, dirty |-> FALSE])

\* C9: once the connection is open, withTx runs f in a transaction under
\* "always" and without one under "never", whatever the driver; under "auto"
\* or no value, in a transaction for postgres and sqlite3 and without one
\* for mysql.
C9_TransactionPolicy ==
  (log # <<>> /\ log[1].op = "open" /\ log[1].ok) =>
    /\ args.RunInTx = "always" => inTx /\ At("begin") = {2} /\ pc # "panic"
    /\ args.RunInTx = "never" => ~inTx /\ At("begin") = {} /\ pc # "panic"
    /\ (args.RunInTx \in {"", "auto"} /\ args.Driver \in {"postgres", "sqlite3"}) =>
         inTx /\ At("begin") = {2} /\ pc # "panic"
    /\ (args.RunInTx \in {"", "auto"} /\ args.Driver = "mysql") =>
         ~inTx /\ At("begin") = {} /\ pc # "panic"

\* C9's case: "always" with a driver that is none of the three.
C9_Witness ==
  /\ args.RunInTx = "always" /\ args.Driver = "oracle"
  /\ inTx /\ txLive
  /\ pc = "getState"

\* The number of digits name begins with.
RECURSIVE LeadingDigits(_)
LeadingDigits(name) ==
  IF name # <<>> /\ Head(name) \in Digits
    THEN 1 + LeadingDigits(Tail(name))
    ELSE 0

\* name matches ^[0-9]+_.*\.sql$
WellNamed(name) ==
  LET n == LeadingDigits(name)
  IN /\ n >= 1
     /\ Len(name) >= n + 5
     /\ name[n + 1] = "_"
     /\ HasSuffix(name, SqlSuffix)

\* The regular .sql files of the directory read whose names are not
\* well-formed.
IllNamed ==
  {e \in dir.entries :
     ~e.isDir /\ HasSuffix(e.name, SqlSuffix) /\ ~WellNamed(e.name)}

\* C10: a directory with a regular .sql file whose name does not begin with
\* digits followed by an underscore fails to load, with the invalid-name
\* error when the file is alone; the version of a file loaded is the decimal
\* value of the digits its name begins with.
C10_NamesAnchored ==
  (log # <<>> /\ log[1].op = "readDir" /\ log[1].ok) =>
    /\ IllNamed # {} => err # "nil"
    /\ (IllNamed # {} /\ Cardinality(dir.entries) = 1) => err = "invalidName"
    /\ \A k \in DOMAIN migrations :
         migrations[k].version =
           Atoi(SubSeq(migrations[k].name, 1,
                       LeadingDigits(migrations[k].name))).n

\* The regular .sql files of the directory read.
SqlFiles == {e \in dir.entries : ~e.isDir /\ HasSuffix(e.name, SqlSuffix)}

\* The directory read has been read.
DirRead == log # <<>> /\ log[1].op = "readDir" /\ log[1].ok

\* Two .sql files of the directory parse to the same version.
Colliding ==
  \E e, f \in SqlFiles :
    /\ e.name # f.name
    /\ parseMigrationName(e.name).err = "nil"
    /\ parseMigrationName(f.name).err = "nil"
    /\ parseMigrationName(e.name).version = parseMigrationName(f.name).version

\* The directory has no fault of another kind: every .sql file of it has a
\* name that parses and can be read.
NoOtherFault ==
  \A e \in SqlFiles : e.readable /\ parseMigrationName(e.name).err = "nil"

\* C11: when two .sql files of the directory parse to the same version (as
\* 01_.sql and 1_a.sql do), the load fails and returns no migrations; the
\* error is the duplicate-version error, the directory having no other
\* fault that the loader meets first.
C11_DuplicateVersionRejected ==
  (DirRead /\ Colliding) =>
    /\ err # "nil"
    /\ migrations = <<>>
    /\ pc = "done"
    /\ NoOtherFault => err = "duplicateVersion"

\* C11's case: two names that differ in zero padding were refused.
C11_Witness ==
  /\ DirRead /\ Colliding /\ NoOtherFault
  /\ \E e, f \in SqlFiles :
       /\ LeadingDigits(e.name) = 2 /\ LeadingDigits(f.name) = 1
       /\ parseMigrationName(e.name).version = 1
       /\ parseMigrationName(f.name).version = 1
  /\ err = "duplicateVersion"

\* A load for migrate has succeeded.
Loaded == DirRead /\ args.cmd = "migrate" /\ err = "nil"

\* C12: the migrations a successful load returns are in strictly ascending
\* order of version, every version is at least 1, and there is one
\* migration for each regular .sql file of the directory, with the version
\* its name parses to; so the result is fixed by the directory.
C12_LoadedSetWellFormed ==
  Loaded =>
    /\ \A j, k \in DOMAIN migrations :
         j < k => migrations[j].version < migrations[k].version
    /\ \A k \in DOMAIN migrations : migrations[k].version >= 1
    /\ Len(migrations) = Cardinality(SqlFiles)
    /\ {migrations[k] : k \in DOMAIN migrations} =
         {[version |-> parseMigrationName(e.name).version, name |-> e.name] :
            e \in SqlFiles}

\* C12's case: two files whose order by name is not their order by version.
C12_Witness ==
  /\ Loaded
  /\ Len(migrations) = 2
  /\ StrLess(migrations[2].name, migrations[1].name)
  /\ migrations[1].version < migrations[2].version

\* migrate has tried to load a directory, and the load fails on it.
LoadFailed ==
  /\ args.cmd = "migrate"
  /\ log # <<>> /\ log[1].op = "readDir"
  /\ parseMigrations(dir).err # "nil"

\* C13: when the load of the directory fails, migrate returns the load's
\* error and does nothing else: it opens no connection and no transaction,
\* reads and writes no state, executes and lists no script.
C13_MalformedSetNeverApplied ==
  LoadFailed =>
    /\ pc = "done"
    /\ err = parseMigrations(dir).err
    /\ Len(log) = 1
    /\ out = <<>>
    /\ ~txLive
    /\ db = pre

\* C13's case: a forced migrate on a clean, initialized database was given
\* a directory with two files of the same version.
C13_Witness ==
  /\ LoadFailed /\ args.Force
  /\ err = "duplicateVersion"
  /\ Persisted([version |-> 0, dirty |-> FALSE])
  /\ Len(log) = 1

\* The configuration error of the option f of the command line.
ConfigError(f) ==
  CASE f = "Migrations" -> "migrationsRequired"
    [] f = "Driver" -> IF args.Driver = "" THEN "driverRequired" ELSE "invalidDriver"
    [] f = "DSN" -> "dsnRequired"
    [] f = "StateTable" -> "stateTableRequired"
    [] f = "RunInTx" -> "invalidRunInTx"

\* C14: init, status, reset and migrate with a configuration error (no
\* migrations directory, no or an unknown driver, no DSN, no state table, a
\* transactional mode that is none of auto, always, never or unset) return
\* that error without a call on the file system or the database.
C14_ConfigErrorsFirst ==
  (args.cmd \in {"init", "status", "reset", "migrate"} /\ BadArgs(args) # {}) =>
    /\ pc = "done"
    /\ err \in {ConfigError(f) : f \in BadArgs(args)}
    /\ log = <<>>
    /\ out = <<>>
    /\ dir = NoDir
    /\ ~txLive
    /\ db = pre

\* C14's case: a forced migrate with an invalid transactional mode, on a
\* database with pending work.
C14_Witness ==
  /\ Forced /\ args.RunInTx = "sometimes"
  /\ pc = "done" /\ err = "invalidRunInTx"
  /\ log = <<>>
  /\ Persisted([version |-> 0, dirty |-> FALSE])

\* The decimal digits, and the number a run of them writes.
DecDigits == <<"0", "1", "2", "3", "4", "5", "6", "7", "8", "9">>

RECURSIVE Decimal(_)
Decimal(ds) ==
  IF ds = <<>> THEN 0
  ELSE 10 * Decimal(SubSeq(ds, 1, Len(ds) - 1))
         + ((CHOOSE k \in 1..10 : DecDigits[k] = ds[Len(ds)]) - 1)

\* The digits a line begins with, up to the first character that is none.
RECURSIVE DigitPrefix(_)
DigitPrefix(line) ==
  IF line # <<>> /\ \E k \in 1..10 : DecDigits[k] = Head(line)
    THEN <<Head(line)>> \o DigitPrefix(Tail(line))
    ELSE <<>>

DirtyMark == <<" ", "(", "d", "i", "r", "t", "y", ")">>

\* What a line of status says: the version, and whether dirty.
Reported(line) ==
  [version |-> Decimal(DigitPrefix(line)),
   dirty |-> SubSeq(line, Len(DigitPrefix(line)) + 1, Len(line)) = DirtyMark]

\* The text after the digits of a status line is nothing or " (dirty)".
StatusShaped(line) ==
  /\ DigitPrefix(line) # <<>>
  /\ SubSeq(line, Len(DigitPrefix(line)) + 1, Len(line)) \in {<<>>, DirtyMark}

\* C15: a status that follows a reset(V, D) which returned nil on an
\* initialized state table prints one line, which says V, and dirty exactly
\* when D, whatever invocations came before the reset; a status that fails
\* prints nothing.
C15_ResetThenStatus ==
  (args.cmd = "status" /\ last.resetOk /\ pre.exists /\ pre.rows # <<>>) =>
    /\ (pc = "done" /\ err = "nil") =>
         /\ Len(out) = 1
         /\ StatusShaped(out[1])
         /\ Reported(out[1]) = [version |-> last.version, dirty |-> last.dirty]
    /\ (pc # "done" \/ err # "nil") => out = <<>>
    /\ db = pre

\* C16: an init that returns nil on a database without the state table
\* leaves the table with one row, and a read right after it, in the same
\* invocation's database or by the status that follows, yields (0, clean).
C16_InitThenRead ==
  /\ (args.cmd = "init" /\ pc = "done" /\ err = "nil" /\ ~pre.exists) =>
       /\ db.exists
       /\ Len(db.rows) = 1
       /\ getState(db) = [err |-> "nil", s |-> [version |-> 0, dirty |-> FALSE]]
  /\ (args.cmd = "status" /\ last.initOk /\ pc = "done" /\ err = "nil") =>
       /\ out = <<<<"0">>>>
       /\ state = [version |-> 0, dirty |-> FALSE]

\* C16's case: the status after an init printed "0".
C16_Witness ==
  /\ args.cmd = "status" /\ last.initOk
  /\ pc = "done" /\ err = "nil"
  /\ out = <<<<"0">>>>
  /\ db.rows = <<[version |-> 0, dirty |-> FALSE]>>

\* The number of migrations applied: the script succeeded and the clean
\* state was written.
Applied ==
  Cardinality({k \in DOMAIN log :
                 log[k].op = "setState" /\ log[k].ok /\ ~log[k].dirty})

\* A state write or a script of the run failed.
StepFailed ==
  \E k \in DOMAIN log : log[k].op \in {"setState", "exec"} /\ ~log[k].ok

C18_ScriptErrorReturned ==
  (args.cmd = "migrate" /\ pc = "done" /\ ScriptFailed) => err = "exec"

\* C19: a forced migrate that follows a reset(V, clean) and returns nil has
\* executed the migrations with a version above V, all of them and no
\* other, whatever earlier invocations executed.
C19_PendingFromStateRead ==
  (Forced /\ last.resetOk /\ ~last.dirty /\ pc = "done" /\ err = "nil") =>
    /\ VersionsOf(Execs) = VersionsOf(After(migrations, last.version))
    /\ \A k \in DOMAIN Execs : Execs[k].ok

\* The state writes of the run that failed.
FailedWrites == {k \in DOMAIN log : log[k].op = "setState" /\ ~log[k].ok}

\* C20: in force mode a state write that fails ends the run: no script and
\* no state write follows it.  When it is the dirty write before migration
\* m, m's script has not been executed; when it is the clean write after
\* m's script, then without a transaction the state table keeps (version
\* before m, dirty) and the database holds the effects of m.
C20_StateWriteFailureStops ==
  Forced =>
    \A k \in FailedWrites :
      /\ pc \in {"ret", "done"}
      /\ err # "nil"
      /\ \A j \in DOMAIN log : j > k => log[j].op = "rollback"
      /\ log[k].dirty =>
           \A e \in DOMAIN Execs :
             Execs[e].ok /\ Execs[e].version < migrations[i + 1].version
      /\ ~log[k].dirty =>
           /\ log[k - 1].op = "exec" /\ log[k - 1].ok
           /\ log[k - 1].version = migrations[i + 1].version
           /\ \A e \in DOMAIN Execs :
                Execs[e].ok /\ Execs[e].version <= migrations[i + 1].version
           /\ ~inTx =>
                /\ Persisted([version |-> LastCompleted(k - 1), dirty |-> TRUE])
                /\ migrations[i + 1].version \in db.effects

\* C20's case: without a transaction, the clean write after the second
\* script failed; the table says (version of the first, dirty).
C20_Witness ==
  /\ Forced /\ ~inTx /\ pc = "done"
  /\ Len(Execs) = 2 /\ ~ScriptFailed
  /\ FailedWrites = {Len(log)}
  /\ ~log[Len(log)].dirty
  /\ Persisted([version |-> Execs[1].version, dirty |-> TRUE])
  /\ Execs[2].version \in db.effects

\* The versions the state table may hold during a migrate that read version
\* v: v itself and the versions of the loaded migrations above v.
VersionsFrom(v) ==
  {v} \cup {migrations[k].version : k \in {j \in DOMAIN migrations :
                                            migrations[j].version > v}}

\* The first state read of the invocation succeeded.
ReadOk == Reads # <<>> /\ Reads[1].ok

\* C21: during a migrate invocation the version in the state table never
\* decreases; once the state is read, the version in the table is the
\* version read or the version of a loaded migration above it, every state
\* write carries such a version, and every script executed belongs to a
\* migration above the version read, so that a migration at or below the
\* version read is never executed, applied before or not.
C21_VersionNeverDecreases ==
  [][(args.cmd = "migrate" /\ args' = args) =>
       /\ db'.exists = db.exists
       /\ Len(db'.rows) = Len(db.rows)
       /\ \A k \in DOMAIN db.rows : db'.rows[k].version >= db.rows[k].version
       /\ ~ReadOk' => db' = db
       /\ ReadOk' =>
            /\ \A k \in DOMAIN db'.rows :
                 db'.rows[k].version \in VersionsFrom(ReadVersion)'
            /\ \A k \in DOMAIN Writes' :
                 /\ Writes'[k].version \in VersionsFrom(ReadVersion)'
                 /\ k > 1 => Writes'[k].version >= Writes'[k - 1].version
            /\ \A k \in DOMAIN Execs' : Execs'[k].version > ReadVersion'
            /\ \A k \in DOMAIN migrations' :
                 migrations'[k].version <= ReadVersion' =>
                   migrations'[k].version \notin db'.effects \ db.effects]_vars

\* C21's case: a forced migrate that read version V has returned with a
\* higher version in the state table, having executed a script, while a
\* migration of the set at or below V has never had its script executed.
C21_Witness ==
  /\ Forced /\ pc = "done" /\ ReadClean
  /\ Execs # <<>>
  /\ db.rows # <<>> /\ db.rows[1].version > ReadVersion
  /\ pre.rows # <<>> /\ pre.rows[1].version = ReadVersion
  /\ \E k \in DOMAIN migrations :
       /\ migrations[k].version <= ReadVersion
       /\ migrations[k].version \notin db.effects

\* C22: the "unreachable" panics of runInTx are never reached. In init,
\* status, reset and migrate the program comes to rootArgs.withTx, and so to
\* runInTx, only with a command line validate(false) accepts; runInTx is
\* evaluated (the database having been opened) only on such a command line,
\* and returns a boolean there; and for every driver and every
\* --run-in-transaction value validate(false) accepts, runInTx returns a
\* boolean.
C22_UnreachableNeverReached ==
  /\ pc # "panic"
  /\ pc = "withTx" =>
       /\ args.cmd \in {"init", "status", "reset", "migrate"}
       /\ validate(args, FALSE) = "nil"
  /\ \A k \in At("open") :
       log[k].ok =>
         /\ args.cmd \in {"init", "status", "reset", "migrate"}
         /\ validate(args, FALSE) = "nil"
         /\ runInTx(args) \in {"true", "false"}
         /\ inTx <=> runInTx(args) = "true"
  /\ \A a \in PolicyArgs :
       validate(a, FALSE) = "nil" => runInTx(a) \in {"true", "false"}

\* C22's case: runInTx has been evaluated through its inner switch, on a
\* validated command line that leaves the transactional mode unset.
C22_Witness ==
  /\ args.cmd = "reset" /\ args.RunInTx = "" /\ args.Driver = "mysql"
  /\ log # <<>> /\ log[1].op = "open" /\ log[1].ok
  /\ ~inTx /\ pc = "reset"

\* The run of digits parseMigrationName converts: the first group of the
\* leftmost match of the pattern in name.
VersionDigits(name) ==
  LET p == CHOOSE x \in 1..Len(name) :
             MatchesAt(name, x) /\ \A y \in 1..(x - 1) : ~MatchesAt(name, y)
  IN SubSeq(name, p, DigitRunEnd(name, p))

\* The regular .sql files of the directory read whose digits are a number
\* beyond the int.
OutOfRange ==
  {e \in SqlFiles :
     /\ \E p \in 1..Len(e.name) : MatchesAt(e.name, p)
     /\ Atoi(VersionDigits(e.name)).err = "range"}

\* C23: parsing the name of a .sql file ends with a version of at least 1
\* or with an error returned, and never with a panic; a name whose digits
\* are a number beyond the int is refused with an error returned, and the
\* program goes on to its end.
C23_NameParsingNeverAborts ==
  DirRead =>
    /\ pc # "panic"
    /\ \A e \in SqlFiles :
         LET r == parseMigrationName(e.name)
         IN /\ r.err # "panic"
            /\ r.err = "nil" => r.version >= 1
    /\ \A e \in OutOfRange :
         parseMigrationName(e.name).err \notin {"nil", "panic"}

====
